---------------------------- MODULE Spec2Model ----------------------------
(***************************************************************************)
(* A model of sqleaner's format_sql (src/src/sqleaner/format.py): the      *)
(* driver loop over the parsed statements, the depth-first walk with the   *)
(* ExpressionVisitor, _format_select, and the round-trip check that        *)
(* re-parses every formatted fragment.                                     *)
(*                                                                         *)
(* SQL text is a sequence of pieces.  A piece is a word ("SELECT", "a"),   *)
(* a single punctuation character (",", ";", "(", ")", "+", "*", "=") or a *)
(* single whitespace character (" ", "\n").  Two words that are adjacent   *)
(* in a text with no whitespace or punctuation between them are one word   *)
(* to the tokenizer, as the characters of "SELECT" and "a" in "SELECTa"    *)
(* are.                                                                    *)
(*                                                                         *)
(* An AST node is [kind, name, args]: args is the ordered list of the      *)
(* node's child arguments, each [key, nodes], as sqlglot's Expression.args *)
(* is; name is the text of an Identifier and "" for every other kind.      *)
(***************************************************************************)
EXTENDS Integers, Sequences, FiniteSets, TLC

(***************************************************************************)
(* Bounds of the model.                                                    *)
(***************************************************************************)
\* the longest input document, in entries between semicolons
MaxStmts == 2

(***************************************************************************)
(* AST nodes (sqlglot.expressions).                                        *)
(***************************************************************************)
N(kind, name, args) == [kind |-> kind, name |-> name, args |-> args]

A(key, nodes) == [key |-> key, nodes |-> nodes]

\* the empty marker the parser returns for an empty chunk (Python's None)
NoneNode == N("None", "", <<>>)

\* node.args.get(key): the nodes under key, <<>> when the argument is absent
Arg(node, key) ==
    LET hits == SelectSeq(node.args, LAMBDA a : a.key = key)
    IN  IF hits = <<>> THEN <<>> ELSE hits[1].nodes

Identifier(s) == N("Identifier", s, <<>>)

Column(s) == N("Column", "", <<A("this", <<Identifier(s)>>)>>)

Table(s) == N("Table", "", <<A("this", <<Identifier(s)>>)>>)

Star == N("Star", "", <<>>)

Alias(e, s) == N("Alias", "", <<A("this", <<e>>), A("alias", <<Identifier(s)>>)>>)

Add(l, r) == N("Add", "", <<A("this", <<l>>), A("expression", <<r>>)>>)

EQ(l, r) == N("EQ", "", <<A("this", <<l>>), A("expression", <<r>>)>>)

From(t) == N("From", "", <<A("this", <<Table(t)>>)>>)

\* on is <<>> or <<condition>>
Join(t, on) ==
    N("Join", "", <<A("this", <<Table(t)>>)>>
                  \o (IF on = <<>> THEN <<>> ELSE <<A("on", on)>>))

Where(c) == N("Where", "", <<A("this", <<c>>)>>)

CTE(alias, sel) ==
    N("CTE", "", <<A("this", <<sel>>),
                   A("alias", <<N("TableAlias", "", <<A("this", <<Identifier(alias)>>)>>)>>)>>)

With(ctes) == N("With", "", <<A("expressions", ctes)>>)

\* ctes, joins: sequences; from, where: <<>> or a one-element sequence
Select(ctes, exprs, from, joins, where) ==
    N("Select", "",
      (IF ctes = <<>> THEN <<>> ELSE <<A("with", <<With(ctes)>>)>>)
      \o <<A("expressions", exprs)>>
      \o (IF from = <<>> THEN <<>> ELSE <<A("from", from)>>)
      \o (IF joins = <<>> THEN <<>> ELSE <<A("joins", joins)>>)
      \o (IF where = <<>> THEN <<>> ELSE <<A("where", where)>>))

Drop(t) == N("Drop", "", <<A("this", <<Table(t)>>)>>)

Delete(t, where) ==
    N("Delete", "", <<A("this", <<Table(t)>>)>>
                    \o (IF where = <<>> THEN <<>> ELSE <<A("where", where)>>))

(***************************************************************************)
(* Helpers.                                                                *)
(***************************************************************************)
\* F(v), with v evaluated once and bound to F's parameter as a value
Bind(v, F(_)) == CHOOSE r \in {F(x) : x \in {v}} : TRUE

RECURSIVE JoinFrom(_, _, _)
\* sep.join(texts[k:])
JoinFrom(sep, texts, k) ==
    IF k > Len(texts) THEN <<>>
    ELSE IF k = Len(texts) THEN texts[k]
    ELSE texts[k] \o sep \o JoinFrom(sep, texts, k + 1)

\* sep.join(texts)
JoinText(sep0, texts0) ==
    Bind(sep0, LAMBDA sep : Bind(texts0, LAMBDA texts : JoinFrom(sep, texts, 1)))

RECURSIVE Spaces(_)
\* " " * n
Spaces(n) == IF n = 0 THEN <<>> ELSE <<" ">> \o Spaces(n - 1)

(***************************************************************************)
(* The external renderer: node.sql() of sqlglot, the default one-line      *)
(* text of a node.                                                         *)
(***************************************************************************)
RECURSIVE Sql(_)
Sql(node0) ==
    Bind(node0, LAMBDA node :
    LET this  == Arg(node, "this")
        sqls(nodes) == [k \in 1..Len(nodes) |-> Sql(nodes[k])]
        opt(nodes)  == IF nodes = <<>> THEN <<>> ELSE <<" ">> \o Sql(nodes[1])
    IN  CASE node.kind = "Identifier" -> <<node.name>>
          [] node.kind \in {"Column", "Table", "TableAlias"} -> Sql(this[1])
          [] node.kind = "Star" -> <<"*">>
          [] node.kind = "Alias" ->
                Sql(this[1]) \o <<" ", "AS", " ">> \o Sql(Arg(node, "alias")[1])
          [] node.kind = "Add" ->
                Sql(this[1]) \o <<" ", "+", " ">> \o Sql(Arg(node, "expression")[1])
          [] node.kind = "EQ" ->
                Sql(this[1]) \o <<" ", "=", " ">> \o Sql(Arg(node, "expression")[1])
          [] node.kind = "From" -> <<"FROM", " ">> \o Sql(this[1])
          [] node.kind = "Join" ->
                <<"JOIN", " ">> \o Sql(this[1])
                \o (IF Arg(node, "on") = <<>> THEN <<>>
                    ELSE <<" ", "ON", " ">> \o Sql(Arg(node, "on")[1]))
          [] node.kind = "Where" -> <<"WHERE", " ">> \o Sql(this[1])
          [] node.kind = "CTE" ->
                Sql(Arg(node, "alias")[1]) \o <<" ", "AS", " ", "(">>
                \o Sql(this[1]) \o <<")">>
          [] node.kind = "With" ->
                <<"WITH", " ">> \o JoinText(<<",", " ">>, sqls(Arg(node, "expressions")))
          [] node.kind = "Select" ->
                (IF Arg(node, "with") = <<>> THEN <<>>
                 ELSE Sql(Arg(node, "with")[1]) \o <<" ">>)
                \o <<"SELECT", " ">>
                \o JoinText(<<",", " ">>, sqls(Arg(node, "expressions")))
                \o opt(Arg(node, "from"))
                \o (IF Arg(node, "joins") = <<>> THEN <<>>
                    ELSE <<" ">> \o JoinText(<<" ">>, sqls(Arg(node, "joins"))))
                \o opt(Arg(node, "where"))
          [] node.kind = "Drop" -> <<"DROP", " ", "TABLE", " ">> \o Sql(this[1])
          [] node.kind = "Delete" ->
                <<"DELETE", " ", "FROM", " ">> \o Sql(this[1]) \o opt(Arg(node, "where"))
          [] OTHER -> <<>>)

\* Expression.alias_or_name: the alias of an Alias, the name of a Column, "*"
\* for a Star, and "" for an expression with no name of its own (a + b)
AliasOrName(e) ==
    CASE e.kind = "Alias"  -> Arg(e, "alias")[1].name
      [] e.kind = "Column" -> Arg(e, "this")[1].name
      [] e.kind = "Star"   -> "*"
      [] OTHER             -> ""

\* Select.selects: the projections
Selects(exp) == Arg(exp, "expressions")

\* Select.named_selects: the output names of the projections that have one
NamedSelects(exp) ==
    LET named == SelectSeq(Selects(exp), LAMBDA e : AliasOrName(e) # "")
    IN  [k \in 1..Len(named) |-> AliasOrName(named[k])]

(***************************************************************************)
(* The external tokenizer (sqlglot.tokens.Tokenizer): whitespace ends a    *)
(* word and is dropped, punctuation is a token of its own, adjacent words  *)
(* are one word, keywords are recognised in either case.                   *)
(***************************************************************************)
Whitespace == {" ", "\n"}

Punctuation == {",", ";", "(", ")", "+", "*", "="}

Keywords == {"SELECT", "FROM", "JOIN", "ON", "AS", "WITH", "WHERE",
             "DROP", "TABLE", "DELETE"}

Upper(w) ==
    CASE w = "select" -> "SELECT" [] w = "from"  -> "FROM"
      [] w = "join"   -> "JOIN"   [] w = "on"    -> "ON"
      [] w = "as"     -> "AS"     [] w = "with"  -> "WITH"
      [] w = "where"  -> "WHERE"  [] w = "drop"  -> "DROP"
      [] w = "table"  -> "TABLE"  [] w = "delete" -> "DELETE"
      [] OTHER        -> w

IsWord(piece) == piece \notin Whitespace \cup Punctuation

RECURSIVE WordAt(_, _)
\* the word whose first piece is at k: the pieces up to the next whitespace
\* or punctuation, read as one word
WordAt(text, k) ==
    IF k <= Len(text) /\ IsWord(text[k]) THEN text[k] \o WordAt(text, k + 1) ELSE ""

\* the tokens of a text, in order: a token starts at every punctuation piece
\* and at every word piece that does not follow a word piece
Tokenize(text0) ==
    Bind(text0, LAMBDA text :
    LET starts(k) == \/ text[k] \in Punctuation
                     \/ IsWord(text[k]) /\ (k = 1 \/ ~IsWord(text[k - 1]))
    IN  Bind(SelectSeq([k \in 1..Len(text) |-> k], starts), LAMBDA at :
        [m \in 1..Len(at) |->
            IF text[at[m]] \in Punctuation THEN text[at[m]]
            ELSE Upper(WordAt(text, at[m]))]))

(***************************************************************************)
(* The external parser (sqlglot.Parser.parse): the token list is cut into  *)
(* chunks at the semicolons and each chunk is parsed as one statement.  A  *)
(* parse result is [ok, nodes, pos]: the nodes read and the position of    *)
(* the next token, ok = FALSE where sqlglot raises ParseError.             *)
(***************************************************************************)
ParseFail == [ok |-> FALSE, nodes |-> <<>>, pos |-> 0]

Parsed(nodes, pos) == [ok |-> TRUE, nodes |-> nodes, pos |-> pos]

Tok(t, p) == IF p \in 1..Len(t) THEN t[p] ELSE "<EOF>"

IsName(w) == w \notin Keywords \cup Punctuation \cup {"<EOF>"}

\* a column or a star
ParsePrimary(t, p) ==
    IF Tok(t, p) = "*" THEN Parsed(<<Star>>, p + 1)
    ELSE IF IsName(Tok(t, p)) THEN Parsed(<<Column(Tok(t, p))>>, p + 1)
    ELSE ParseFail

\* primary [+ primary] [[AS] alias]
ParseExpression(t, p) ==
    Bind(ParsePrimary(t, p), LAMBDA l :
    Bind(IF l.ok /\ Tok(t, l.pos) = "+"
         THEN Bind(ParsePrimary(t, l.pos + 1), LAMBDA r :
                   IF r.ok THEN Parsed(<<Add(l.nodes[1], r.nodes[1])>>, r.pos)
                   ELSE ParseFail)
         ELSE l, LAMBDA sum :
    IF ~sum.ok THEN ParseFail
    ELSE IF Tok(t, sum.pos) = "AS" /\ IsName(Tok(t, sum.pos + 1))
         THEN Parsed(<<Alias(sum.nodes[1], Tok(t, sum.pos + 1))>>, sum.pos + 2)
    ELSE IF IsName(Tok(t, sum.pos))
         THEN Parsed(<<Alias(sum.nodes[1], Tok(t, sum.pos))>>, sum.pos + 1)
    ELSE sum))

RECURSIVE ParseProjections(_, _)
\* expression {, expression}
ParseProjections(t, p) ==
    Bind(ParseExpression(t, p), LAMBDA e :
    IF ~e.ok THEN ParseFail
    ELSE IF Tok(t, e.pos) # "," THEN e
    ELSE Bind(ParseProjections(t, e.pos + 1), LAMBDA rest :
              IF rest.ok THEN Parsed(e.nodes \o rest.nodes, rest.pos)
              ELSE ParseFail))

\* column = column
ParseCondition(t, p) ==
    IF IsName(Tok(t, p)) /\ Tok(t, p + 1) = "=" /\ IsName(Tok(t, p + 2))
    THEN Parsed(<<EQ(Column(Tok(t, p)), Column(Tok(t, p + 2)))>>, p + 3)
    ELSE ParseFail

RECURSIVE ParseJoins(_, _)
\* {JOIN table [ON condition]}
ParseJoins(t, p) ==
    IF Tok(t, p) # "JOIN" THEN Parsed(<<>>, p)
    ELSE IF ~IsName(Tok(t, p + 1)) THEN ParseFail
    ELSE Bind(IF Tok(t, p + 2) = "ON" THEN ParseCondition(t, p + 3)
              ELSE Parsed(<<>>, p + 2), LAMBDA on :
         IF ~on.ok THEN ParseFail
         ELSE Bind(ParseJoins(t, on.pos), LAMBDA rest :
                   IF rest.ok
                   THEN Parsed(<<Join(Tok(t, p + 1), on.nodes)>> \o rest.nodes, rest.pos)
                   ELSE ParseFail))

\* [WHERE condition]
ParseWhere(t, p) ==
    IF Tok(t, p) # "WHERE" THEN Parsed(<<>>, p)
    ELSE Bind(ParseCondition(t, p + 1), LAMBDA c :
              IF c.ok THEN Parsed(<<Where(c.nodes[1])>>, c.pos) ELSE ParseFail)

\* [FROM table]
ParseFrom(t, p) ==
    IF Tok(t, p) # "FROM" THEN Parsed(<<>>, p)
    ELSE IF IsName(Tok(t, p + 1)) THEN Parsed(<<From(Tok(t, p + 1))>>, p + 2)
    ELSE ParseFail

RECURSIVE ParseSelect(_, _)
RECURSIVE ParseCtes(_, _)
\* [WITH ctes] SELECT projections [FROM table] {JOIN ...} [WHERE ...]
ParseSelect(t, p) ==
    Bind(IF Tok(t, p) = "WITH" THEN ParseCtes(t, p + 1) ELSE Parsed(<<>>, p),
         LAMBDA with :
    IF ~with.ok \/ Tok(t, with.pos) # "SELECT" THEN ParseFail
    ELSE Bind(ParseProjections(t, with.pos + 1), LAMBDA cols :
    IF ~cols.ok THEN ParseFail
    ELSE Bind(ParseFrom(t, cols.pos), LAMBDA from :
    IF ~from.ok THEN ParseFail
    ELSE Bind(ParseJoins(t, from.pos), LAMBDA joins :
    IF ~joins.ok THEN ParseFail
    ELSE Bind(ParseWhere(t, joins.pos), LAMBDA where :
    IF ~where.ok THEN ParseFail
    ELSE Parsed(<<Select(with.nodes, cols.nodes, from.nodes, joins.nodes,
                         where.nodes)>>, where.pos))))))

\* alias AS ( select ) {, alias AS ( select )}
ParseCtes(t, p) ==
    IF ~(IsName(Tok(t, p)) /\ Tok(t, p + 1) = "AS" /\ Tok(t, p + 2) = "(")
    THEN ParseFail
    ELSE Bind(ParseSelect(t, p + 3), LAMBDA sel :
    IF ~sel.ok \/ Tok(t, sel.pos) # ")" THEN ParseFail
    ELSE IF Tok(t, sel.pos + 1) # ","
         THEN Parsed(<<CTE(Tok(t, p), sel.nodes[1])>>, sel.pos + 1)
    ELSE Bind(ParseCtes(t, sel.pos + 2), LAMBDA rest :
              IF rest.ok
              THEN Parsed(<<CTE(Tok(t, p), sel.nodes[1])>> \o rest.nodes, rest.pos)
              ELSE ParseFail))

\* one chunk, one statement: the empty marker for an empty chunk, and
\* ParseError when tokens are left over
ParseChunk(t0) ==
    Bind(t0, LAMBDA t :
    IF t = <<>> THEN Parsed(<<NoneNode>>, 1)
    ELSE IF t[1] \in {"SELECT", "WITH"}
         THEN Bind(ParseSelect(t, 1), LAMBDA sel :
                   IF sel.ok /\ sel.pos = Len(t) + 1 THEN sel ELSE ParseFail)
    ELSE IF t[1] = "DROP"
         THEN IF Tok(t, 2) = "TABLE" /\ IsName(Tok(t, 3)) /\ Len(t) = 3
              THEN Parsed(<<Drop(t[3])>>, 4)
              ELSE ParseFail
    ELSE IF t[1] = "DELETE"
         THEN IF Tok(t, 2) = "FROM" /\ IsName(Tok(t, 3))
              THEN Bind(ParseWhere(t, 4), LAMBDA del :
                        IF del.ok /\ del.pos = Len(t) + 1
                        THEN Parsed(<<Delete(t[3], del.nodes)>>, del.pos)
                        ELSE ParseFail)
              ELSE ParseFail
    ELSE ParseFail)

\* the token list cut at its semicolons: a semicolon that is not the last
\* token starts a new chunk
Chunks(t0) ==
    Bind(t0, LAMBDA t :
    Bind(SelectSeq([k \in 1..Len(t) |-> k], LAMBDA k : t[k] = ";"), LAMBDA cuts :
    LET n == IF t # <<>> /\ t[Len(t)] = ";" THEN Len(cuts) ELSE Len(cuts) + 1
        from(m) == IF m = 1 THEN 1 ELSE cuts[m - 1] + 1
        to(m)   == IF m <= Len(cuts) THEN cuts[m] - 1 ELSE Len(t)
    IN  [m \in 1..n |-> SubSeq(t, from(m), to(m))]))

\* _parse_statement(sql_str): [ok, nodes], nodes the list of statements and
\* empty markers; ok = FALSE when the parser raises
ParseStatement(sql_str) ==
    Bind(Chunks(Tokenize(sql_str)), LAMBDA chunks :
    Bind([k \in 1..Len(chunks) |-> ParseChunk(chunks[k])], LAMBDA each :
    IF \E k \in 1..Len(chunks) : ~each[k].ok THEN [ok |-> FALSE, nodes |-> <<>>]
    ELSE [ok |-> TRUE, nodes |-> [k \in 1..Len(chunks) |-> each[k].nodes[1]]]))

(***************************************************************************)
(* format.py: the walk, the visitor and the SELECT formatter.              *)
(***************************************************************************)
\* the key of the root of a walk (Python's None)
NoKey == "None"

\* the values of the enum ExpressionKey
ExpressionKey ==
    {"expressions", "expression", NoKey, "table", "this", "from", "alias",
     "joins", "with", "on"}

RECURSIVE DfsFrom(_, _)
\* exp.dfs(): the node, then the walk of each child in the order of args;
\* each entry is the node and the key it hangs under
DfsFrom(node0, key) ==
    Bind(node0, LAMBDA node :
    LET walkAll(nodes, k) ==
            JoinText(<<>>, [m \in 1..Len(nodes) |-> DfsFrom(nodes[m], k)])
    IN  <<[node |-> node, key |-> key]>>
        \o JoinText(<<>>, [a \in 1..Len(node.args) |->
                              walkAll(node.args[a].nodes, node.args[a].key)]))

Dfs(exp) == DfsFrom(exp, NoKey)

\* DfsNodes as if only the routed node itself were recorded as visited
DfsNodesRootOnly(exp) == <<exp>>

\* [node for node, *_ in exp.dfs()]
DfsNodes(exp) == Bind(Dfs(exp), LAMBDA walk : [k \in 1..Len(walk) |-> walk[k].node])

\* the spaces of one indent level
IndentWidth == 4

\* indent_level of format_sql
IndentLevel == 0

\* indent_chars = " " * 4 * (indent_level + 1)
IndentChars == Spaces(IndentWidth * (IndentLevel + 1))

\* base_col_sep
BaseColSep == <<",">>

\* col_sep = f"\n{indent_chars}{base_col_sep} "
ColSep == <<"\n">> \o IndentChars \o BaseColSep \o <<" ">>

\* expression_ending
ExpressionEnding == <<"\n", ";">>

\* check_all_of_type(iterable, t)
CheckAllOfType(nodes, kind) == \A k \in 1..Len(nodes) : nodes[k].kind = kind

\* _format_select(exp, col_sep, indentation_chars)
FormatSelect(exp, col_sep, indentation_chars) ==
    LET named       == Len(NamedSelects(exp))
        lead        == IF named = 1 THEN <<" ">>
                       ELSE IF named > 1 THEN <<"\n">> \o indentation_chars
                       ELSE <<>>
        col_strings == [k \in 1..Len(Selects(exp)) |-> Sql(Selects(exp)[k])]
        from_clause == Arg(exp, "from")
        from_part   == IF from_clause # <<>> /\ from_clause[1].kind = "From"
                       THEN <<"\n">> \o Sql(from_clause[1])
                       ELSE <<>>
        join_clauses == Arg(exp, "joins")
        join_part   == IF join_clauses # <<>> /\ CheckAllOfType(join_clauses, "Join")
                       THEN <<"\n">> \o JoinText(<<"\n">>,
                                [k \in 1..Len(join_clauses) |-> Sql(join_clauses[k])])
                       ELSE <<>>
    IN  <<"SELECT">> \o lead \o JoinText(col_sep, col_strings) \o from_part \o join_part

\* ExpressionVisitor.route_expression: whether the node takes the fallback
\* branch, which logs a warning
RoutesToFallback(exp) == exp.kind # "Select"

\* ExpressionVisitor.route_expression: the text returned
RouteExpression(exp, col_sep, indent_chars) ==
    IF RoutesToFallback(exp) THEN Sql(exp)
    ELSE FormatSelect(exp, col_sep, indent_chars)

\* ExpressionVisitor._skip_node
SkipNode(node, visited) == \E k \in 1..Len(visited) : visited[k] = node

\* CheckAst as if the re-parsed statement were counted but not compared
CheckAstNoCompare(exp, fragment) ==
    Bind(ParseStatement(fragment), LAMBDA formatted_ast_expressions :
    IF ~formatted_ast_expressions.ok THEN "ParseError"
    ELSE IF Len(formatted_ast_expressions.nodes) # 1 THEN "RuntimeError"
    ELSE "ok")

\* CheckAst as if the fragment were never re-parsed
CheckAstAlwaysOk(exp, fragment) == "ok"

\* the round-trip check of format_sql: "ok", or the error raised
CheckAst(exp, fragment) ==
    Bind(ParseStatement(fragment), LAMBDA formatted_ast_expressions :
    IF ~formatted_ast_expressions.ok THEN "ParseError"
    ELSE IF Len(formatted_ast_expressions.nodes) # 1 THEN "RuntimeError"
    ELSE IF exp # formatted_ast_expressions.nodes[1] THEN "RuntimeError"
    ELSE "ok")

(***************************************************************************)
(* The input documents: every sequence of at most MaxStmts entries, each a *)
(* statement of the pool or empty, written on one line in lower-case       *)
(* keywords with the entries separated by ";".                             *)
(***************************************************************************)
ab == EQ(Column("a"), Column("b"))

SelectAFromT == Select(<<>>, <<Column("a")>>, <<From("t")>>, <<>>, <<>>)

Pool ==
    { SelectAFromT,
      Select(<<>>, <<Column("a")>>, <<>>, <<>>, <<>>),
      Select(<<>>, <<Star>>, <<From("t")>>, <<>>, <<>>),
      Select(<<>>, <<Alias(Column("a"), "x")>>, <<From("t")>>, <<>>, <<>>),
      Select(<<>>, <<Add(Column("a"), Column("b"))>>, <<From("t")>>, <<>>, <<>>),
      Select(<<>>, <<Column("a"), Column("b")>>, <<From("t")>>, <<>>, <<>>),
      Select(<<>>, <<Column("a"), Add(Column("a"), Column("b"))>>, <<From("t")>>,
             <<>>, <<>>),
      Select(<<>>, <<Column("a"), Column("b"), Add(Column("a"), Column("b"))>>,
             <<From("t")>>, <<>>, <<>>),
      Select(<<>>, <<Column("a")>>, <<From("t")>>, <<Join("u", <<ab>>)>>, <<>>),
      Select(<<>>, <<Column("a"), Star>>, <<From("t")>>,
             <<Join("u", <<>>), Join("v", <<ab>>)>>, <<>>),
      Select(<<>>, <<Column("a")>>, <<From("t")>>, <<>>, <<Where(ab)>>),
      Select(<<CTE("c", SelectAFromT)>>, <<Star>>, <<From("c")>>, <<>>, <<>>),
      Select(<<CTE("c", Select(<<CTE("d", SelectAFromT)>>,
                               <<Column("a"), Column("b")>>, <<From("d")>>, <<>>, <<>>))>>,
             <<Column("a")>>, <<From("c")>>, <<>>, <<>>),
      Drop("t"),
      Delete("t", <<>>),
      Delete("t", <<Where(ab)>>) }

Documents == UNION {[1..n -> Pool \cup {NoneNode}] : n \in 1..MaxStmts}

Lower(w) ==
    CASE w = "SELECT" -> "select" [] w = "FROM"  -> "from"
      [] w = "JOIN"   -> "join"   [] w = "ON"    -> "on"
      [] w = "AS"     -> "as"     [] w = "WITH"  -> "with"
      [] w = "WHERE"  -> "where"  [] w = "DROP"  -> "drop"
      [] w = "TABLE"  -> "table"  [] w = "DELETE" -> "delete"
      [] OTHER        -> w

\* the one-line source text of a document
SourceText(doc) ==
    LET lower(text) == [k \in 1..Len(text) |-> Lower(text[k])]
        line(e)     == IF e = NoneNode THEN <<>> ELSE lower(Sql(e))
    IN  JoinText(<<";", "\n">>, [k \in 1..Len(doc) |-> line(doc[k])])

\* the text of an earlier result with its last terminator and the trailing
\* newline taken off, as it is fed to format_sql again
StripTerminator(text) ==
    LET n == Len(text)
    IN  IF n >= 3 /\ SubSeq(text, n - 2, n) = ExpressionEnding \o <<"\n">>
        THEN SubSeq(text, 1, n - 3)
        ELSE text

(***************************************************************************)
(* The state of a run of format_sql.                                       *)
(***************************************************************************)
VARIABLES
    sql_str,        \* the argument of the call
    call,           \* 1: the call on the source text, 2: the call on its result
    pc,             \* "call", "loop", "walk", "verify", "done", "error"
    parsed,         \* the statements and empty markers of sql_str
    i,              \* the position of the for loop in parsed
    output,         \* the list of the fragments appended so far
    formatted_exp,  \* the text of the statement being formatted
    dfs,            \* the walk of the statement being formatted
    j,              \* the position of the walk
    visited_nodes,  \* ExpressionVisitor.visited_nodes
    routed,         \* the nodes handed to route_expression in this walk
    warnings,       \* the nodes logger.warning was called for, in all calls
    checked,        \* the positions in parsed whose fragment passed the check
    result,         \* the string returned, NoResult until then
    first_result,   \* the string the first call returned
    error           \* the exception raised, "" if none

vars == <<sql_str, call, pc, parsed, i, output, formatted_exp, dfs, j,
          visited_nodes, routed, warnings, checked, result, first_result, error>>

NoResult == <<"<no result>">>

Init ==
    /\ sql_str \in {SourceText(doc) : doc \in Documents}
    /\ call = 1
    /\ pc = "call"
    /\ parsed = <<>>
    /\ i = 1
    /\ output = <<>>
    /\ formatted_exp = <<>>
    /\ dfs = <<>>
    /\ j = 1
    /\ visited_nodes = <<>>
    /\ routed = <<>>
    /\ warnings = <<>>
    /\ checked = <<>>
    /\ result = NoResult
    /\ first_result = NoResult
    /\ error = ""

\* raise: the call ends with no return value
Raise(kind) ==
    /\ pc' = "error"
    /\ error' = kind
    /\ result' = NoResult

\* parsed = _parse_statement(sql_str); output = []
Call ==
    /\ pc = "call"
    /\ LET p == ParseStatement(sql_str)
       IN  IF p.ok
           THEN /\ parsed' = p.nodes
                /\ pc' = "loop"
                /\ UNCHANGED <<error, result>>
           ELSE /\ Raise("ParseError")
                /\ UNCHANGED parsed
    /\ i' = 1
    /\ output' = <<>>
    /\ UNCHANGED <<sql_str, call, formatted_exp, dfs, j, visited_nodes, routed,
                   warnings, checked, first_result>>

\* for exp in parsed: if exp is None: continue
SkipEmpty ==
    /\ pc = "loop"
    /\ i <= Len(parsed)
    /\ parsed[i] = NoneNode
    /\ i' = i + 1
    /\ UNCHANGED <<sql_str, call, pc, parsed, output, formatted_exp, dfs, j,
                   visited_nodes, routed, warnings, checked, result, first_result,
                   error>>

\* formatted_exp = ""; visitor = ExpressionVisitor(...); the walk begins
BeginStatement ==
    /\ pc = "loop"
    /\ i <= Len(parsed)
    /\ parsed[i] # NoneNode
    /\ formatted_exp' = <<>>
    /\ visited_nodes' = <<>>
    /\ routed' = <<>>
    /\ dfs' = Dfs(parsed[i])
    /\ j' = 1
    /\ pc' = "walk"
    /\ UNCHANGED <<sql_str, call, parsed, i, output, warnings, checked, result,
                   first_result, error>>

\* key = ExpressionKey(raw_key) raises ValueError
VisitBadKey ==
    /\ pc = "walk"
    /\ j <= Len(dfs)
    /\ dfs[j].key \notin ExpressionKey
    /\ Raise("RuntimeError")
    /\ UNCHANGED <<sql_str, call, parsed, i, output, formatted_exp, dfs, j,
                   visited_nodes, routed, warnings, checked, first_result>>

\* visitor.visit_expression(node) on a node already visited: ""
VisitSkip ==
    /\ pc = "walk"
    /\ j <= Len(dfs)
    /\ dfs[j].key \in ExpressionKey
    /\ SkipNode(dfs[j].node, visited_nodes)
    /\ j' = j + 1
    /\ UNCHANGED <<sql_str, call, pc, parsed, i, output, formatted_exp, dfs,
                   visited_nodes, routed, warnings, checked, result, first_result,
                   error>>

\* visitor.visit_expression(node) on a node not yet visited: it is routed,
\* and the node and all its descendants become visited
VisitRoute ==
    /\ pc = "walk"
    /\ j <= Len(dfs)
    /\ dfs[j].key \in ExpressionKey
    /\ ~SkipNode(dfs[j].node, visited_nodes)
    /\ formatted_exp' =
           formatted_exp \o RouteExpression(dfs[j].node, ColSep, IndentChars)
    /\ warnings' = IF RoutesToFallback(dfs[j].node)
                   THEN Append(warnings, dfs[j].node)
                   ELSE warnings
    /\ visited_nodes' = visited_nodes \o DfsNodes(dfs[j].node)
    /\ routed' = Append(routed, dfs[j].node)
    /\ j' = j + 1
    /\ UNCHANGED <<sql_str, call, pc, parsed, i, output, dfs, checked, result,
                   first_result, error>>

\* AppendFragment as if the loop went on to the next statement unchecked
AppendFragmentUnchecked ==
    /\ pc = "walk"
    /\ j > Len(dfs)
    /\ formatted_exp' = formatted_exp \o ExpressionEnding
    /\ output' = Append(output, formatted_exp')
    /\ i' = i + 1
    /\ pc' = "loop"
    /\ UNCHANGED <<sql_str, call, parsed, dfs, j, visited_nodes, routed,
                   warnings, checked, result, first_result, error>>

\* formatted_exp += expression_ending; output.append(formatted_exp)
AppendFragment ==
    /\ pc = "walk"
    /\ j > Len(dfs)
    /\ formatted_exp' = formatted_exp \o ExpressionEnding
    /\ output' = Append(output, formatted_exp')
    /\ pc' = "verify"
    /\ UNCHANGED <<sql_str, call, parsed, i, dfs, j, visited_nodes, routed,
                   warnings, checked, result, first_result, error>>

\* the fragment re-parses to the statement: on to the next statement
VerifyPass ==
    /\ pc = "verify"
    /\ CheckAst(parsed[i], formatted_exp) = "ok"
    /\ checked' = Append(checked, i)
    /\ i' = i + 1
    /\ pc' = "loop"
    /\ UNCHANGED <<sql_str, call, parsed, output, formatted_exp, dfs, j,
                   visited_nodes, routed, warnings, result, first_result, error>>

\* VerifyFail as if a failed check were passed over and the loop went on
VerifyFailContinues ==
    /\ pc = "verify"
    /\ CheckAst(parsed[i], formatted_exp) # "ok"
    /\ i' = i + 1
    /\ pc' = "loop"
    /\ UNCHANGED <<sql_str, call, parsed, output, formatted_exp, dfs, j,
                   visited_nodes, routed, warnings, checked, result, first_result,
                   error>>

\* the fragment does not re-parse to the statement: the check raises
VerifyFail ==
    /\ pc = "verify"
    /\ CheckAst(parsed[i], formatted_exp) # "ok"
    /\ Raise(CheckAst(parsed[i], formatted_exp))
    /\ UNCHANGED <<sql_str, call, parsed, i, output, formatted_exp, dfs, j,
                   visited_nodes, routed, warnings, checked, first_result>>

\* Return as if the trailing newline were left off
ReturnNoNewline ==
    /\ pc = "loop"
    /\ i > Len(parsed)
    /\ result' = JoinText(<<>>, output)
    /\ pc' = "done"
    /\ UNCHANGED <<sql_str, call, parsed, i, output, formatted_exp, dfs, j,
                   visited_nodes, routed, warnings, checked, first_result, error>>

\* return "".join(output) + "\n"
Return ==
    /\ pc = "loop"
    /\ i > Len(parsed)
    /\ result' = JoinText(<<>>, output) \o <<"\n">>
    /\ pc' = "done"
    /\ UNCHANGED <<sql_str, call, parsed, i, output, formatted_exp, dfs, j,
                   visited_nodes, routed, warnings, checked, first_result, error>>

\* the caller feeds the returned text, its last terminator stripped, to
\* format_sql again
CallAgain ==
    /\ pc = "done"
    /\ call = 1
    /\ call' = 2
    /\ first_result' = result
    /\ sql_str' = StripTerminator(result)
    /\ pc' = "call"
    /\ parsed' = <<>>
    /\ i' = 1
    /\ output' = <<>>
    /\ formatted_exp' = <<>>
    /\ dfs' = <<>>
    /\ j' = 1
    /\ visited_nodes' = <<>>
    /\ routed' = <<>>
    /\ checked' = <<>>
    /\ result' = NoResult
    /\ UNCHANGED <<warnings, error>>

Next ==
    \/ Call
    \/ SkipEmpty
    \/ BeginStatement
    \/ VisitBadKey
    \/ VisitSkip
    \/ VisitRoute
    \/ AppendFragment
    \/ VerifyPass
    \/ VerifyFail
    \/ Return
    \/ CallAgain

Spec == Init /\ [][Next]_vars

(***************************************************************************)
(* The claims.                                                             *)
(***************************************************************************)
\* the statements of the document, its empty entries left out
Statements == SelectSeq(parsed, LAMBDA e : e # NoneNode)

\* the text begins with the given pieces
StartsWith(text, prefix) ==
    Len(text) >= Len(prefix) /\ SubSeq(text, 1, Len(prefix)) = prefix

\* the fragment re-parses to exactly the one statement stmt
RoundTrips(stmt, fragment) ==
    Bind(ParseStatement(fragment), LAMBDA again : again.ok /\ again.nodes = <<stmt>>)

\* C1: whenever format_sql has returned a string, it emitted one fragment
\* per non-empty statement, and each fragment re-parses to exactly one
\* statement, structurally equal to the statement it was formatted from.
C1_RoundTrip ==
    pc = "done" =>
        /\ Len(output) = Len(Statements)
        /\ \A k \in 1..Len(output) : RoundTrips(Statements[k], output[k])

\* a call has returned two fragments, one of them of a multi-line SELECT
C1_Witness ==
    /\ pc = "done"
    /\ call = 1
    /\ Len(output) = 2
    /\ \E k \in 1..2 : StartsWith(output[k], <<"SELECT", "\n">>)

\* C2: the string returned is the fragments of the non-empty statements in
\* their order, each the statement's text followed by "\n;", and then one
\* "\n"; there is one ";" per non-empty statement and empty entries add
\* nothing.
C2_Output ==
    pc = "done" =>
        LET texts == [k \in 1..Len(Statements) |->
                         RouteExpression(Statements[k], ColSep, IndentChars)
                         \o <<"\n", ";">>]
            semis == SelectSeq(result, LAMBDA piece : piece = ";")
        IN  /\ result = JoinText(<<>>, texts) \o <<"\n">>
            /\ Len(semis) = Len(Statements)
            /\ result[Len(result)] = "\n"
            /\ Len(result) > 1 => result[Len(result) - 1] = ";"

\* a call on a document with an empty entry before its statement returned
C2_Witness ==
    /\ pc = "done"
    /\ call = 1
    /\ Len(parsed) = 2
    /\ parsed[1] = NoneNode
    /\ Len(output) = 1

\* C3: a SELECT with exactly one projection is rendered as "SELECT", one
\* space and the column's own text, whatever the column is.
C3_SingleProjection ==
    (pc = "walk" /\ j > 1 /\ dfs[1].node.kind = "Select"
        /\ Len(Selects(dfs[1].node)) = 1) =>
        StartsWith(formatted_exp,
                   <<"SELECT", " ">> \o Sql(Selects(dfs[1].node)[1]))

\* C4: a SELECT with two or more projections puts every projection on a
\* line of its own, four spaces in: a newline and the indent after SELECT,
\* and each later column on a new indented line that begins with ", ".
C4_MultiProjection ==
    (pc = "walk" /\ j > 1 /\ dfs[1].node.kind = "Select"
        /\ Len(Selects(dfs[1].node)) >= 2) =>
        LET cols == Selects(dfs[1].node)
            line(k) == IF k = 1 THEN <<"\n", " ", " ", " ", " ">> \o Sql(cols[1])
                       ELSE <<"\n", " ", " ", " ", " ", ",", " ">> \o Sql(cols[k])
        IN  StartsWith(formatted_exp,
                       <<"SELECT">> \o JoinText(<<>>, [k \in 1..Len(cols) |-> line(k)]))

\* C5: the text of a SELECT that carries CTEs starts with a WITH block: the
\* first CTE's alias, AS, an opening parenthesis, and its body on the next
\* line one indent level (four spaces) deeper than the statement.
C5_WithBlock ==
    (pc = "walk" /\ j > 1 /\ dfs[1].node.kind = "Select"
        /\ Arg(dfs[1].node, "with") # <<>>) =>
        LET first == Arg(Arg(dfs[1].node, "with")[1], "expressions")[1]
        IN  StartsWith(formatted_exp,
                       <<"WITH", " ">> \o Sql(Arg(first, "alias")[1])
                       \o <<" ", "AS", " ", "(", "\n", " ", " ", " ", " ">>)

\* C6: a fragment that does not re-parse to exactly its statement makes the
\* call fail: the step from the check goes to the error state with nothing
\* returned, and nothing happens after an error (no later statement is
\* formatted, no string is returned).
C6_FailFast ==
    [][/\ pc # "error"
       /\ (pc = "verify" /\ ~RoundTrips(parsed[i], formatted_exp)) =>
              (pc' = "error" /\ result' = NoResult /\ error' # "")]_vars

\* the second statement of a document failed the check after the first one
\* had passed it
C6_Witness ==
    /\ pc = "error"
    /\ result = NoResult
    /\ checked = <<1>>
    /\ Len(output) = 2
    /\ ~RoundTrips(parsed[i], formatted_exp)

\* C7: a statement that is not a SELECT takes the fallback and never makes
\* the call fail; when the call returns, its fragment is the renderer's
\* default text and the terminator, and a warning was logged for it.
C7_LenientFallback ==
    /\ (pc = "error" /\ i <= Len(parsed)) => parsed[i].kind = "Select"
    /\ pc = "done" =>
           \A k \in 1..Len(Statements) :
               Statements[k].kind # "Select" =>
                   /\ k <= Len(output)
                   /\ output[k] = Sql(Statements[k]) \o <<"\n", ";">>
                   /\ \E w \in 1..Len(warnings) : warnings[w] = Statements[k]

\* C8: feeding the returned text, its last terminator stripped, to
\* format_sql again returns the same text, when every statement is a SELECT
\* (no statement took the fallback, so no warning was logged).
C8_Idempotent ==
    (call = 2 /\ warnings = <<>>) =>
        /\ pc # "error"
        /\ pc = "done" => result = first_result

\* the second call returned, on the text of two SELECT statements
C8_Witness ==
    /\ call = 2
    /\ pc = "done"
    /\ warnings = <<>>
    /\ Len(output) = 2
    /\ result = first_result

C10_OnlyRootRouted ==
    LET text == RouteExpression(parsed[i], ColSep, IndentChars)
    IN  /\ (pc = "walk" /\ j > 1) =>
               /\ routed = <<parsed[i]>>
               /\ formatted_exp = text
               /\ \A k \in 2..Len(dfs) : SkipNode(dfs[k].node, visited_nodes)
        /\ pc = "verify" =>
               /\ routed = <<parsed[i]>>
               /\ formatted_exp = text \o ExpressionEnding

\* the walk of a statement equal to the one before it has reached its end
C10_Witness ==
    /\ pc = "walk"
    /\ i = 2
    /\ parsed[1] = parsed[2]
    /\ Len(dfs) > 10
    /\ j = Len(dfs) + 1
    /\ routed = <<parsed[2]>>

=============================================================================
